---- MODULE Spec2Model ----
(***************************************************************************)
(* A model of the AzureLens backend (Express app, routers for vision,      *)
(* translation, chat and health, the storage and enhanced-vision services) *)
(* and of the mobile client's analyzeImageEnhanced.                        *)
(*                                                                         *)
(* Conventions of the model:                                               *)
(*  - a message string built by concatenation is a sequence of fragments;  *)
(*    `includes` is membership of a fragment;                              *)
(*  - an image is its decoded size in bytes;                               *)
(*  - a JSON object is a record, an absent key is an absent field;         *)
(*  - confidences are percentages (integers);                              *)
(*  - timestamps are the constant "ts": no claim depends on the clock.     *)
(***************************************************************************)
EXTENDS Integers, Sequences, FiniteSets, TLC

VARIABLES
    env,            \* process.env: which settings are present, NODE_ENV
    azureClients,   \* config/azure.js: the module-level `azureClients` object
    blobs,          \* the blobs of the storage container, in upload order
    req,            \* the request being answered
    resp,           \* the response sent for it
    calls,          \* the external calls made while answering it
    hits,           \* express-rate-limit: hits per IP in the current window
    reached,        \* per IP: requests that reached a route handler in the window
    client,         \* mobile client: one run of analyzeImageEnhanced
    seen            \* first observed output of the probed chat request

vars == <<env, azureClients, blobs, req, resp, calls, hits, reached, client, seen>>

\* ---------------------------------------------------------------- bounds
MaxBlobs == 2

\* ------------------------------------------------------- program constants
MB == 1024 * 1024
MaxImageBytes == 20 * MB        \* routes/vision.js: 20 * 1024 * 1024
JsonLimitBytes == 10 * MB       \* index.js: express.json({ limit: '10mb' })
MulterFileSize == 10 * MB       \* index.js: multer limits.fileSize

\* -------------------------------------------------------------- helpers
Msg(s) == <<s>>
Includes(m, frag) == \E i \in 1..Len(m) : m[i] = frag
Has(r, f) == f \in DOMAIN r
NoCalls == [vision |-> <<>>, openai |-> <<>>, translator |-> <<>>, blob |-> <<>>]
NoReq == [route |-> "none"]
NoResp == [status |-> 0, body |-> [none |-> TRUE]]
IsDev == env.NODE_ENV = "development"

\* ------------------------------------------------------ config/azure.js
\* Each client exists exactly when its settings are present.
initializeAzureClients(e) ==
    [vision      |-> e.VISION,
     translator  |-> e.TRANSLATOR_API_KEY,
     openai      |-> e.OPENAI,
     blobService |-> e.STORAGE_CONNECTION_STRING,
     keyVault    |-> e.KEY_VAULT_URL]

Envs ==
    [VISION : BOOLEAN,                     \* VISION_ENDPOINT && VISION_API_KEY
     TRANSLATOR_API_KEY : BOOLEAN,
     OPENAI : BOOLEAN,                     \* OPENAI_ENDPOINT && OPENAI_API_KEY
     STORAGE_CONNECTION_STRING : BOOLEAN,
     KEY_VAULT_URL : BOOLEAN,
     NODE_ENV : {"development", "production"}]

\* ------------------------------------------- middleware/errorHandler.js
\* err is [name, code, type, message]; the result is [status, body].
errorStatusMessage(err) ==
    LET first ==
          IF err.name = "ValidationError" THEN [status |-> 400, message |-> "Validation error"]
          ELSE IF err.name = "CastError" THEN [status |-> 400, message |-> "Invalid ID format"]
          ELSE IF err.name = "JsonWebTokenError" THEN [status |-> 401, message |-> "Invalid token"]
          ELSE IF err.name = "TokenExpiredError" THEN [status |-> 401, message |-> "Token expired"]
          ELSE IF err.type = "entity.parse.failed" THEN [status |-> 400, message |-> "Invalid JSON payload"]
          ELSE IF err.type = "entity.too.large" THEN [status |-> 413, message |-> "Payload too large"]
          ELSE IF err.code = "LIMIT_FILE_SIZE" THEN [status |-> 413, message |-> "File too large"]
          ELSE IF err.code = "LIMIT_UNEXPECTED_FILE" THEN [status |-> 400, message |-> "Unexpected file field"]
          ELSE [status |-> 500, message |-> "Internal server error"]
        second ==
          IF err.code = "Unauthorized" THEN [status |-> 401, message |-> "Azure service authentication failed"]
          ELSE IF err.code = "Forbidden" THEN [status |-> 403, message |-> "Azure service access denied"]
          ELSE IF err.code = "NotFound" THEN [status |-> 404, message |-> "Azure resource not found"]
          ELSE IF err.code = "TooManyRequests" THEN [status |-> 429, message |-> "Azure service rate limit exceeded"]
          ELSE IF err.code = "ServiceUnavailable" THEN [status |-> 503, message |-> "Azure service temporarily unavailable"]
          ELSE first
    IN IF err.code \in {"ECONNREFUSED", "ETIMEDOUT"}
       THEN [status |-> 503, message |-> "Service temporarily unavailable"]
       ELSE second

errorHandler(err, path) ==
    LET e == errorStatusMessage(err)
        base == [error |-> e.message, status |-> e.status, timestamp |-> "ts", path |-> path]
    IN [status |-> e.status,
        body |-> IF IsDev
                 THEN [error |-> e.message, status |-> e.status, timestamp |-> "ts",
                       path |-> path, stack |-> "stack", details |-> err.message]
                 ELSE base]

\* ----------------------------------------------- index.js: body parsing
\* Length of the base64 text of n bytes.
Base64Len(n) == 4 * ((n + 2) \div 3)

PayloadTooLarge == [name |-> "PayloadTooLargeError", code |-> "", type |-> "entity.too.large",
                    message |-> Msg("request entity too large")]
FileTooLarge == [name |-> "MulterError", code |-> "LIMIT_FILE_SIZE", type |-> "",
                 message |-> Msg("File too large")]
NotAnImage == [name |-> "Error", code |-> "", type |-> "",
               message |-> Msg("Only image files are allowed!")]

\* express.json and conditionalUpload (multer) in front of the vision router:
\* "next" when the request goes on to the router, else the error passed on.
parseBody(r) ==
    IF r.form = "json" /\ Base64Len(r.size) > JsonLimitBytes THEN PayloadTooLarge
    ELSE IF r.form = "multipart" /\ ~r.isImage THEN NotAnImage
    ELSE IF r.form = "multipart" /\ r.size > MulterFileSize THEN FileTooLarge
    ELSE [name |-> "next"]

\* --------------------------------------- services/storageService.js
UploadOutcomes == {"ok", "fail"}

\* path.extname(originalName) || '.jpg', then getContentType(extension)
fileExtension(originalName) ==
    IF originalName = "photo.png" THEN ".png" ELSE ".jpg"

getContentType(extension) ==
    IF extension \in {".jpg", ".jpeg"} THEN "image/jpeg"
    ELSE IF extension = ".png" THEN "image/png"
    ELSE "application/octet-stream"

\* uploadImageToBlob(imageBuffer, originalName): [ok, blobs, url, calls];
\* the blob's name is unique (timestamp and random suffix): its index.
\* url 0 stands for null.
uploadImageToBlob(size, originalName, outcome) ==
    IF ~azureClients.blobService
    THEN [ok |-> FALSE, blobs |-> blobs, url |-> 0, calls |-> <<>>]
    ELSE IF outcome = "ok"
    THEN [ok |-> TRUE,
          blobs |-> Append(blobs, [size |-> size,
                                   contentType |-> getContentType(fileExtension(originalName)),
                                   originalName |-> originalName]),
          url |-> Len(blobs) + 1,
          calls |-> <<"upload">>]
    ELSE [ok |-> FALSE, blobs |-> blobs, url |-> 0, calls |-> <<"upload">>]

\* ------------------------------------------- middleware/validation.js
validFeatures == {"Caption", "DenseCaptions", "Objects", "People", "Read", "SmartCrops", "Tags"}
visionLanguages == {"en", "es", "fr", "de", "it", "pt", "ru", "ja", "ko", "zh"}

\* validateImageAnalysisRequest: the Joi schema's verdict on the body
\* (features: the names between the commas; "" : key absent), then the
\* checks of req.file. 0 stands for next().
validateImageAnalysisRequest(r) ==
    IF (\E i \in 1..Len(r.features) : r.features[i] \notin validFeatures)
       \/ (r.language # "" /\ r.language \notin visionLanguages)
    THEN [status |-> 400, body |-> [error |-> "Validation failed", message |-> Msg("joi"),
                                    validFeatures |-> validFeatures]]
    ELSE IF r.form = "multipart" /\ r.size > 10 * MB
    THEN [status |-> 400, body |-> [error |-> "File too large",
                                    message |-> Msg("Image file must be smaller than 10MB")]]
    ELSE IF r.form = "multipart" /\ ~r.isImage
    THEN [status |-> 400, body |-> [error |-> "Invalid file type",
                                    message |-> Msg("Only JPEG, PNG, GIF, BMP, and WebP images are allowed")]]
    ELSE [status |-> 0, body |-> [none |-> TRUE]]

\* ------------------------------------------------- routes/vision.js
\* What the Vision API can answer (response.data), or how the call fails.
FullResult ==
    [captionResult |-> [text |-> "a cat on a mat", confidence |-> 90],
     objectsResult |-> [values |-> << [tags |-> << [name |-> "cat", confidence |-> 80] >>,
                                       boundingBox |-> "bb"] >>],
     peopleResult  |-> [values |-> << [confidence |-> 70, boundingBox |-> "bb"] >>],
     tagsResult    |-> [values |-> << [name |-> "animal", confidence |-> 85] >>],
     readResult    |-> [blocks |-> << <<"EXIT">> >>]]
EmptyResult == [modelVersion |-> "2023-10-01"]
VisionResults == {FullResult, EmptyResult}

VisionOutcomes ==
    [kind : {"ok"}, data : VisionResults, status : {200}]
    \cup {[kind |-> "apiError", data |-> Msg("Invalid feature"), status |-> 400],
          [kind |-> "apiError", data |-> Msg("Access denied"), status |-> 401],
          [kind |-> "netError", data |-> Msg("timeout of 30000ms exceeded"), status |-> 0]}

defaultFeatures == <<"Caption", "Objects", "Tags", "People">>

\* The features and language of a request: both absent, both valid, one invalid.
FeatureChoices ==
    {[features |-> <<>>, language |-> ""],
     [features |-> <<"Caption", "Tags">>, language |-> "fr"],
     [features |-> <<"Caption", "Bogus">>, language |-> "fr"],
     [features |-> <<"Read">>, language |-> "xx"]}

ImageSizes == {0, 1, 10 * MB + 1, 20 * MB + 1}

AnalyzeRequests ==
    {[route |-> "vision/analyze", form |-> f, size |-> n, isImage |-> TRUE,
      originalName |-> "photo.png", features |-> c.features, language |-> c.language] :
        f \in {"multipart", "json"}, n \in ImageSizes, c \in FeatureChoices}
    \cup {[route |-> "vision/analyze", form |-> "multipart", size |-> 1, isImage |-> FALSE,
           originalName |-> "notes.txt", features |-> <<>>, language |-> ""],
          [route |-> "vision/analyze", form |-> "none", size |-> 0, isImage |-> TRUE,
           originalName |-> "", features |-> <<>>, language |-> ""]}

analyzeFeatures(r) == IF r.features # <<>> THEN r.features ELSE defaultFeatures
analyzeLanguage(r) == IF r.language # "" THEN r.language ELSE "en"

ImageTooLarge(size) == size > MaxImageBytes

\* The early returns of router.post('/analyze'); status 0: go on to the call.
analyzeEarly(r) ==
    IF r.form = "none"
    THEN [status |-> 400, body |-> [error |-> "No image data provided",
            message |-> Msg("Please provide image data either as multipart file or base64 string")]]
    ELSE IF r.size = 0
    THEN [status |-> 400, body |-> [error |-> "Invalid image data",
            message |-> Msg("Image buffer is empty or corrupted")]]
    ELSE IF ImageTooLarge(r.size)
    THEN [status |-> 400, body |-> [error |-> "Image too large",
            message |-> <<"Image size (", "KB) exceeds the 20MB limit">>]]
    ELSE IF ~env.VISION
    THEN [status |-> 503, body |-> [error |-> "Vision service unavailable",
            message |-> Msg("Azure Vision service is not configured")]]
    ELSE [status |-> 0, body |-> [none |-> TRUE]]

visionCall(r) == [features |-> analyzeFeatures(r), language |-> analyzeLanguage(r), size |-> r.size]

\* The catch block of router.post('/analyze').
analyzeCatch(vo) ==
    IF vo.kind = "apiError"
    THEN [status |-> vo.status,
          body |-> IF IsDev
                   THEN [error |-> "Analysis failed", message |-> vo.data, details |-> vo.data]
                   ELSE [error |-> "Analysis failed", message |-> vo.data]]
    ELSE [status |-> 500,
          body |-> IF IsDev
                   THEN [error |-> "Analysis failed",
                         message |-> Msg("Failed to analyze the image. Please try again."),
                         details |-> vo.data]
                   ELSE [error |-> "Analysis failed",
                         message |-> Msg("Failed to analyze the image. Please try again.")]]

Values(res, f) == IF Has(res, f) THEN res[f].values ELSE <<>>

\* analysisResponse of router.post('/analyze')
analysisResponse(result, imageUrl) ==
    [success |-> TRUE,
     timestamp |-> "ts",
     imageUrl |-> imageUrl,
     analysis |->
       [caption |-> IF Has(result, "captionResult") THEN result.captionResult.text ELSE "null",
        confidence |-> IF Has(result, "captionResult") THEN result.captionResult.confidence ELSE 0,
        denseCaptions |-> [i \in DOMAIN Values(result, "denseCaptionsResult") |->
                              LET c == Values(result, "denseCaptionsResult")[i]
                              IN [text |-> c.text, confidence |-> c.confidence, boundingBox |-> c.boundingBox]],
        objects |-> [i \in DOMAIN Values(result, "objectsResult") |->
                        LET o == Values(result, "objectsResult")[i]
                        IN [name |-> o.tags[1].name, confidence |-> o.tags[1].confidence,
                            boundingBox |-> o.boundingBox]],
        people |-> [i \in DOMAIN Values(result, "peopleResult") |->
                        LET q == Values(result, "peopleResult")[i]
                        IN [confidence |-> q.confidence, boundingBox |-> q.boundingBox]],
        tags |-> [i \in DOMAIN Values(result, "tagsResult") |->
                        LET t == Values(result, "tagsResult")[i]
                        IN [name |-> t.name, confidence |-> t.confidence]],
        smartCrops |-> [i \in DOMAIN Values(result, "smartCropsResult") |->
                        LET c == Values(result, "smartCropsResult")[i]
                        IN [aspectRatio |-> c.aspectRatio, boundingBox |-> c.boundingBox]],
        text |-> IF Has(result, "readResult") THEN result.readResult.blocks[1] ELSE <<>>]]

\* What a chat request put out: the messages sent to the model, the suggestions.
Output(out, c) ==
    [messages |-> c.openai,
     suggestions |-> IF Has(out.body, "suggestions") THEN out.body.suggestions ELSE <<>>]

Respond(r, out, c, b) ==
    /\ req' = r
    /\ resp' = out
    /\ calls' = c
    /\ blobs' = b
    /\ seen' = IF r = seen.probe
               THEN (IF seen.set
                     THEN [seen EXCEPT !.again = seen.between]
                     ELSE [seen EXCEPT !.set = TRUE, !.out = Output(out, c)])
               ELSE [seen EXCEPT !.between = seen.set]
    /\ UNCHANGED <<env, azureClients, hits, reached>>

\* POST /api/vision/analyze, from the body parsers to the response.
VisionAnalyzeOn(r) ==
    LET parsed == parseBody(r)
        early == analyzeEarly(r)
    IN IF parsed.name # "next"
       THEN Respond(r, errorHandler(parsed, "/api/vision/analyze"), NoCalls, blobs)
       ELSE IF early.status # 0
       THEN Respond(r, early, NoCalls, blobs)
       ELSE \E vo \in VisionOutcomes :
              LET made == [NoCalls EXCEPT !.vision = <<visionCall(r)>>]
              IN IF vo.kind # "ok"
                 THEN Respond(r, analyzeCatch(vo), made, blobs)
                 ELSE \* uploadImageToBlob(imageBuffer, req.file.originalname):
                      \* without req.file the argument throws, the catch logs it
                      IF r.form # "multipart"
                      THEN Respond(r, [status |-> 200, body |-> analysisResponse(vo.data, 0)],
                                   made, blobs)
                      ELSE \E uo \in UploadOutcomes :
                             LET up == uploadImageToBlob(r.size, r.originalName, uo)
                             IN /\ Len(up.blobs) <= MaxBlobs
                                /\ Respond(r, [status |-> 200,
                                               body |-> analysisResponse(vo.data, up.url)],
                                           [made EXCEPT !.blob = up.calls], up.blobs)

VisionAnalyze == \E r \in AnalyzeRequests : VisionAnalyzeOn(r) /\ UNCHANGED client

\* POST /api/vision/ocr: multipart only, one Vision call with features=Read.
OcrRequests ==
    {[route |-> "vision/ocr", form |-> f, size |-> 1, isImage |-> TRUE,
      originalName |-> "photo.png", features |-> <<>>, language |-> l] :
        f \in {"multipart", "json"}, l \in {"", "fr"}}

ocrResponse(result, language) ==
    [success |-> TRUE, timestamp |-> "ts",
     text |-> IF Has(result, "readResult") THEN result.readResult.blocks[1] ELSE <<>>,
     detailedText |-> IF Has(result, "readResult") THEN result.readResult.blocks[1] ELSE <<>>,
     language |-> language]

ocrCatch(vo) ==
    IF vo.kind = "apiError"
    THEN [status |-> vo.status,
          body |-> IF IsDev
                   THEN [error |-> "OCR failed", message |-> vo.data, details |-> vo.data]
                   ELSE [error |-> "OCR failed", message |-> vo.data]]
    ELSE [status |-> 500,
          body |-> IF IsDev
                   THEN [error |-> "OCR failed",
                         message |-> Msg("Failed to extract text from the image. Please try again."),
                         details |-> vo.data]
                   ELSE [error |-> "OCR failed",
                         message |-> Msg("Failed to extract text from the image. Please try again.")]]

VisionOcrOn(r) ==
    LET parsed == parseBody(r)
    IN IF parsed.name # "next"
       THEN Respond(r, errorHandler(parsed, "/api/vision/ocr"), NoCalls, blobs)
       ELSE IF r.form # "multipart"
       THEN Respond(r, [status |-> 400, body |-> [error |-> "No image file provided",
                            message |-> Msg("Please upload an image file")]], NoCalls, blobs)
       ELSE IF ~env.VISION
       THEN Respond(r, [status |-> 503, body |-> [error |-> "Vision service unavailable",
                            message |-> Msg("Azure Vision service is not configured")]],
                    NoCalls, blobs)
       ELSE \E vo \in VisionOutcomes :
              LET made == [NoCalls EXCEPT !.vision =
                             <<[features |-> <<"Read">>, language |-> analyzeLanguage(r),
                                size |-> r.size]>>]
              IN IF vo.kind # "ok"
                 THEN Respond(r, ocrCatch(vo), made, blobs)
                 ELSE Respond(r, [status |-> 200, body |-> ocrResponse(vo.data, analyzeLanguage(r))],
                              made, blobs)

VisionOcr == \E r \in OcrRequests : VisionOcrOn(r) /\ UNCHANGED client

\* ------------------------------- services/enhancedVisionService.js
\* The JSON object in the model's answer (response_format json_object).
FullAnswer ==
    [mainDescription |-> "A cat sleeps on a mat.",
     objects |-> <<"cat", "mat">>,
     sceneContext |-> "indoor",
     activities |-> <<"sleeping">>,
     moodAtmosphere |-> "calm",
     textContent |-> "EXIT",
     colorsComposition |-> <<"warm", "soft light">>,
     interestingDetails |-> <<"whiskers">>,
     confidence |-> 95]
SparseAnswer == [mainDescription |-> "Something."]
ModelAnswers == {FullAnswer, SparseAnswer}

OpenAIOutcomes ==
    [kind : {"ok"}, data : ModelAnswers]
    \cup {[kind |-> "badJson", data |-> Msg("Unexpected token < in JSON at position 0")],
          [kind |-> "throws", data |-> Msg("Request timed out.")],
          [kind |-> "throws", data |-> <<"429 ", "quota exceeded">>],
          [kind |-> "throws", data |-> <<"400 ", "content filtered">>]}

List(a, f) == IF Has(a, f) THEN a[f] ELSE <<>>

\* The object analyzeImageWithGPT4o returns for the parsed answer a.
enhancedResult(a) ==
    LET conf == IF Has(a, "confidence") /\ a.confidence # 0 THEN a.confidence ELSE 90
        main == IF Has(a, "mainDescription") THEN a.mainDescription ELSE "undefined"
    IN [enhanced |-> TRUE,
        model |-> "gpt-4o",
        analysis |-> a,
        caption |-> [text |-> main, confidence |-> conf],
        description |-> [captions |-> << [text |-> main, confidence |-> conf] >>],
        objects |-> [i \in DOMAIN List(a, "objects") |->
                        [object |-> List(a, "objects")[i], confidence |-> 85,
                         rectangle |-> [x |-> 0, y |-> 0, w |-> 100, h |-> 100]]],
        tags |-> [i \in DOMAIN List(a, "objects") |-> [name |-> List(a, "objects")[i], confidence |-> 85]]
                 \o [i \in DOMAIN List(a, "activities") |->
                        [name |-> List(a, "activities")[i], confidence |-> 80]],
        text |-> IF Has(a, "textContent") /\ a.textContent # "" THEN <<a.textContent>> ELSE <<>>,
        color |-> [dominantColors |->
                     LET c == List(a, "colorsComposition")
                     IN SubSeq(c, 1, IF Len(c) < 3 THEN Len(c) ELSE 3)],
        sceneContext |-> IF Has(a, "sceneContext") THEN a.sceneContext ELSE "undefined",
        activities |-> List(a, "activities"),
        moodAtmosphere |-> IF Has(a, "moodAtmosphere") THEN a.moodAtmosphere ELSE "undefined",
        colorsComposition |-> List(a, "colorsComposition"),
        interestingDetails |-> List(a, "interestingDetails"),
        usage |-> "usage"]

\* analyzeImageWithGPT4o(imageBuffer, mimeType): [ok, value | message, calls].
\* Every failure is rethrown with the inner message appended to a prefix.
analyzeImageWithGPT4o(size, oo) ==
    IF ~azureClients.openai
    THEN [ok |-> FALSE, calls |-> <<>>,
          message |-> <<"Enhanced vision analysis failed: ", "OpenAI client not initialized">>]
    ELSE IF oo.kind = "ok"
    THEN [ok |-> TRUE, calls |-> <<[kind |-> "vision", size |-> size]>>,
          value |-> enhancedResult(oo.data)]
    ELSE [ok |-> FALSE, calls |-> <<[kind |-> "vision", size |-> size]>>,
          message |-> <<"Enhanced vision analysis failed: ">> \o oo.data]

\* ------------------------------------- routes/vision.js, analyze-enhanced
EnhancedRequests ==
    {[route |-> "vision/analyze-enhanced", form |-> f, size |-> n, isImage |-> TRUE,
      originalName |-> "image/jpeg", features |-> <<>>, language |-> ""] :
        f \in {"multipart", "json"}, n \in ImageSizes}
    \cup {[route |-> "vision/analyze-enhanced", form |-> "none", size |-> 0, isImage |-> TRUE,
           originalName |-> "", features |-> <<>>, language |-> ""]}

enhancedEarly(r) ==
    IF r.form = "none"
    THEN [status |-> 400, body |-> [error |-> "No image data provided",
            message |-> Msg("Please provide image data either as multipart file or base64 string")]]
    ELSE IF r.size = 0
    THEN [status |-> 400, body |-> [error |-> "Invalid image data",
            message |-> Msg("Image buffer is empty or corrupted")]]
    ELSE IF ImageTooLarge(r.size)
    THEN [status |-> 400, body |-> [error |-> "Image too large",
            message |-> <<"Image size (", "KB) exceeds the 20MB limit">>]]
    ELSE [status |-> 0, body |-> [none |-> TRUE]]

\* The catch block of router.post('/analyze-enhanced').
enhancedCatch(message) ==
    IF Includes(message, "quota exceeded")
    THEN [status |-> 429, body |-> [error |-> "Service quota exceeded",
            message |-> Msg("AI service quota exceeded. Please try again later."),
            retryAfter |-> 60]]
    ELSE IF Includes(message, "content filtered")
    THEN [status |-> 400, body |-> [error |-> "Content filtered",
            message |-> Msg("The image was filtered by content policy. Please try a different image.")]]
    ELSE [status |-> 500, body |-> [error |-> "Enhanced analysis failed", message |-> message]]

\* { ...analysisResult, blobUrl, timestamp, processing }
enhancedResponse(value, blobUrl) ==
    [f \in DOMAIN value \cup {"blobUrl", "timestamp", "processing"} |->
        IF f = "blobUrl" THEN blobUrl
        ELSE IF f = "timestamp" THEN "ts"
        ELSE IF f = "processing" THEN [model |-> "gpt-4o", enhanced |-> TRUE]
        ELSE value[f]]

VisionAnalyzeEnhancedOn(r) ==
    LET parsed == parseBody(r)
        early == enhancedEarly(r)
    IN IF parsed.name # "next"
       THEN Respond(r, errorHandler(parsed, "/api/vision/analyze-enhanced"), NoCalls, blobs)
       ELSE IF early.status # 0
       THEN Respond(r, early, NoCalls, blobs)
       ELSE \E oo \in OpenAIOutcomes :
              LET res == analyzeImageWithGPT4o(r.size, oo)
                  made == [NoCalls EXCEPT !.openai = res.calls]
              IN IF ~res.ok
                 THEN Respond(r, enhancedCatch(res.message), made, blobs)
                 ELSE IF ~env.STORAGE_CONNECTION_STRING
                 THEN Respond(r, [status |-> 200, body |-> enhancedResponse(res.value, 0)],
                              made, blobs)
                 ELSE \E uo \in UploadOutcomes :
                        LET up == uploadImageToBlob(r.size, r.originalName, uo)
                        IN /\ Len(up.blobs) <= MaxBlobs
                           /\ Respond(r, [status |-> 200,
                                          body |-> enhancedResponse(res.value, up.url)],
                                      [made EXCEPT !.blob = up.calls], up.blobs)

VisionAnalyzeEnhanced == \E r \in EnhancedRequests : VisionAnalyzeEnhancedOn(r) /\ UNCHANGED client

\* ---------------------------------- middleware/validation.js, translation
translationLanguages ==
    {"ar", "zh", "zh-Hant", "en", "fr", "de", "hi", "it", "ja", "ko", "pt", "ru", "es", "th", "tr", "vi"}
MaxTextLength == 10000
MaxTexts == 100

\* A text is its length; -1: the key is absent. A language "" : the key is absent.
\* Each validator is TRUE when the Joi schema reports an error (the 400 answer).
TextInvalid(len) == len < 1 \/ len > MaxTextLength
TargetInvalid(l) == l \notin translationLanguages
SourceInvalid(l) == l # "" /\ l \notin translationLanguages \cup {"auto"}

validateTranslationRequest(b) ==
    TextInvalid(b.text) \/ TargetInvalid(b.targetLanguage) \/ SourceInvalid(b.sourceLanguage)

\* texts: n texts, all of length textLen; n = -1: the key is absent.
validateBatchTranslationRequest(b) ==
    \/ b.n < 1 \/ b.n > MaxTexts
    \/ TextInvalid(b.textLen)
    \/ TargetInvalid(b.targetLanguage) \/ SourceInvalid(b.sourceLanguage)

validateLanguageDetectionRequest(b) == TextInvalid(b.text)

validationFailed(extra) ==
    [status |-> 400, body |-> [error |-> "Validation failed", message |-> Msg("joi"), info |-> extra]]

\* ------------------------------------------------ routes/translation.js
TextLengths == {-1, 0, 1, MaxTextLength, MaxTextLength + 1}

TranslateRequests ==
    [route : {"translation/translate"}, text : TextLengths,
     targetLanguage : {"", "es", "xx"}, sourceLanguage : {"", "auto", "xx"}]
DetectRequests == [route : {"translation/detect"}, text : TextLengths]
BatchRequests ==
    [route : {"translation/batch"}, n : {-1, 0, 1, MaxTexts, MaxTexts + 1},
     textLen : {0, 1, MaxTextLength + 1},
     targetLanguage : {"", "es", "xx"}, sourceLanguage : {"", "xx"}]

\* How a call of the translator client ends.
TranslatorOutcomes == {"ok", "empty", "throws"}

translatorUnavailable ==
    [status |-> 503, body |-> [error |-> "Translation service unavailable",
                               message |-> Msg("Azure Translator service is not configured")]]

\* The catch blocks of the three routes.
translationCatch(error, message) ==
    [status |-> 500,
     body |-> IF IsDev
              THEN [error |-> error, message |-> Msg(message), details |-> Msg("internal")]
              ELSE [error |-> error, message |-> Msg(message)]]

translateOptions(b) ==
    IF b.sourceLanguage # "" /\ b.sourceLanguage # "auto"
    THEN [to |-> b.targetLanguage, from |-> b.sourceLanguage]
    ELSE [to |-> b.targetLanguage]

\* POST /api/translation/translate (validateTranslationRequest, then the handler)
TranslateOn(r) ==
    IF validateTranslationRequest(r)
    THEN Respond(r, validationFailed("supportedLanguages"), NoCalls, blobs)
    ELSE IF r.text < 1 \/ r.targetLanguage = ""
    THEN Respond(r, [status |-> 400, body |-> [error |-> "Missing required parameters",
                       message |-> Msg("Both text and targetLanguage are required")]],
                 NoCalls, blobs)
    ELSE IF ~azureClients.translator
    THEN Respond(r, translatorUnavailable, NoCalls, blobs)
    ELSE \E to \in TranslatorOutcomes :
           LET made == [NoCalls EXCEPT !.translator =
                          <<[op |-> "translate", n |-> 1, options |-> translateOptions(r)]>>]
           IN IF to = "ok"
              THEN Respond(r, [status |-> 200,
                               body |-> [success |-> TRUE, timestamp |-> "ts",
                                         originalText |-> r.text,
                                         targetLanguage |-> r.targetLanguage]],
                           made, blobs)
              ELSE Respond(r, translationCatch("Translation failed",
                                  "Failed to translate the text. Please try again."),
                           made, blobs)

Translate == \E r \in TranslateRequests : TranslateOn(r) /\ UNCHANGED client

\* POST /api/translation/detect (no validation middleware on the route)
DetectOn(r) ==
    IF r.text < 1
    THEN Respond(r, [status |-> 400, body |-> [error |-> "Missing text parameter",
                       message |-> Msg("Text is required for language detection")]],
                 NoCalls, blobs)
    ELSE IF ~azureClients.translator
    THEN Respond(r, translatorUnavailable, NoCalls, blobs)
    ELSE \E to \in TranslatorOutcomes :
           LET made == [NoCalls EXCEPT !.translator =
                          <<[op |-> "detect", n |-> 1, options |-> [to |-> "en"]]>>]
           IN IF to = "ok"
              THEN Respond(r, [status |-> 200,
                               body |-> [success |-> TRUE, timestamp |-> "ts", text |-> r.text]],
                           made, blobs)
              ELSE Respond(r, translationCatch("Detection failed",
                                  "Failed to detect the language. Please try again."),
                           made, blobs)

Detect == \E r \in DetectRequests : DetectOn(r) /\ UNCHANGED client

\* POST /api/translation/batch (no validation middleware on the route)
BatchOn(r) ==
    IF r.n < 1
    THEN Respond(r, [status |-> 400, body |-> [error |-> "Invalid texts parameter",
                       message |-> Msg("An array of texts is required")]], NoCalls, blobs)
    ELSE IF r.targetLanguage = ""
    THEN Respond(r, [status |-> 400, body |-> [error |-> "Missing targetLanguage parameter",
                       message |-> Msg("Target language is required")]], NoCalls, blobs)
    ELSE IF r.n > MaxTexts
    THEN Respond(r, [status |-> 400, body |-> [error |-> "Too many texts",
                       message |-> Msg("Maximum 100 texts allowed per batch request")]],
                 NoCalls, blobs)
    ELSE IF ~azureClients.translator
    THEN Respond(r, translatorUnavailable, NoCalls, blobs)
    ELSE \E to \in TranslatorOutcomes :
           LET made == [NoCalls EXCEPT !.translator =
                          <<[op |-> "batch", n |-> r.n, options |-> translateOptions(r)]>>]
           IN IF to = "ok"
              THEN Respond(r, [status |-> 200,
                               body |-> [success |-> TRUE, timestamp |-> "ts",
                                         targetLanguage |-> r.targetLanguage,
                                         totalCount |-> r.n]],
                           made, blobs)
              ELSE Respond(r, translationCatch("Batch translation failed",
                                  "Failed to translate the texts. Please try again."),
                           made, blobs)

Batch == \E r \in BatchRequests : BatchOn(r) /\ UNCHANGED client

\* --------------------------------------------------- routes/chat.js
\* (the chat router: second module of the file routes/vision.js)
MaxItems == 2       \* longest objects / people list of a request
MaxHistory == 2     \* longest conversationHistory of a request
MaxSuggestions == 6

\* slice(0, n); TakeAll: the slice left out
TakeAll(q, n) == q
Take(q, n) == SubSeq(q, 1, IF Len(q) < n THEN Len(q) ELSE n)
NonEmptyList(r, f) == Has(r, f) /\ Len(r[f]) > 0
NonEmptyString(r, f) == Has(r, f) /\ r[f] # ""
Str(r, f) == IF Has(r, f) THEN r[f] ELSE "undefined"
Ordinal == <<"1", "2", "3", "4">>

RECURSIVE Flatten(_)
Flatten(qs) == IF qs = <<>> THEN <<>> ELSE Head(qs) \o Flatten(Tail(qs))

\* buildAnalysisContext(results): the context text, or a TypeError
\* (an objects / people entry without `rectangle`).
contextThrows(results) ==
    \/ NonEmptyList(results, "objects")
         /\ \E i \in DOMAIN results.objects : ~Has(results.objects[i], "rectangle")
    \/ NonEmptyList(results, "people")
         /\ \E i \in DOMAIN results.people : ~Has(results.people[i], "rectangle")

buildAnalysisContext(results) ==
    (IF Has(results, "caption")
     THEN <<"Image Description: ", Str(results.caption, "text"), " (confidence: ",
            Str(results.caption, "confidence"), ")">>
     ELSE <<>>)
    \o (IF Has(results, "description") /\ Has(results.description, "captions")
        THEN <<"Detailed Captions:">>
             \o Flatten([i \in DOMAIN results.description.captions |->
                            <<"- ", Str(results.description.captions[i], "text")>>])
        ELSE <<>>)
    \o (IF NonEmptyList(results, "objects")
        THEN <<"Detected Objects:">>
             \o Flatten([i \in DOMAIN results.objects |->
                            <<"- ", Str(results.objects[i], "object"), " at location">>])
        ELSE <<>>)
    \o (IF NonEmptyList(results, "people")
        THEN <<"People Detected: ", Ordinal[Len(results.people)], " person(s)">>
             \o Flatten([i \in DOMAIN results.people |-> <<"- Person ", Ordinal[i]>>])
        ELSE <<>>)
    \o (IF NonEmptyList(results, "tags")
        THEN <<"Tags: ">> \o [i \in DOMAIN results.tags |-> Str(results.tags[i], "name")]
        ELSE <<>>)
    \o (IF NonEmptyList(results, "text")
        THEN <<"Text Found in Image:">> \o results.text
        ELSE <<>>)
    \o (IF Has(results, "color")
        THEN <<"Color Analysis:">>
             \o (IF Has(results.color, "dominantColors")
                 THEN <<"- Dominant colors: ">> \o results.color.dominantColors
                 ELSE <<>>)
        ELSE <<>>)

buildStandardSystemPrompt(analysisContext) ==
    <<"You are an AI assistant that helps users understand and explore their image analysis results.",
      "Here are the current image analysis results:">> \o analysisContext

buildEnhancedSystemPrompt(results) ==
    <<"You are an engaging, knowledgeable AI assistant helping users explore and understand their image.",
      "Main Description: ", Str(results.analysis, "mainDescription"),
      "Scene Context: ", Str(results, "sceneContext"),
      "Mood/Atmosphere: ", Str(results, "moodAtmosphere"),
      "Activities: ">>
    \o (IF NonEmptyList(results, "activities") THEN results.activities ELSE <<"None specified">>)
    \o <<"Key Objects: ">>
    \o (IF NonEmptyList(results.analysis, "objects") THEN results.analysis.objects
        ELSE <<"None detected">>)
    \o <<"Text Content: ">>
    \o (IF NonEmptyList(results, "text") THEN results.text ELSE <<"No text detected">>)
    \o <<"Colors & Composition: ", Str(results, "colorsComposition"), "Interesting Details: ">>
    \o (IF NonEmptyList(results, "interestingDetails") THEN results.interestingDetails
        ELSE <<"None noted">>)

isEnhancedAnalysis(results) ==
    Has(results, "enhanced") /\ results.enhanced /\ Has(results, "analysis")

\* conversationHistory.forEach: one message per entry, in order.
\* historyMessagesKept: the previous request's question kept on the server.
\* The history pushed with the roles as given.
historyMessagesAsGiven(h) ==
    [i \in DOMAIN h |-> [role |-> h[i].role, content |-> h[i].content]]
historyMessagesKept(h) ==
    (IF Has(req, "question") /\ req.question # ""
     THEN << [role |-> "user", content |-> Msg(req.question)] >> ELSE <<>>)
    \o [i \in DOMAIN h |->
          [role |-> IF h[i].role = "user" THEN "user" ELSE "assistant", content |-> h[i].content]]
historyMessages(h) ==
    [i \in DOMAIN h |->
        [role |-> IF h[i].role = "user" THEN "user" ELSE "assistant", content |-> h[i].content]]

\* The `messages` array of chat router.post('/analyze').
chatMessages(b) ==
    << [role |-> "system",
        content |-> IF isEnhancedAnalysis(b.analysisResults)
                    THEN buildEnhancedSystemPrompt(b.analysisResults)
                    ELSE buildStandardSystemPrompt(buildAnalysisContext(b.analysisResults))] >>
    \o historyMessages(b.conversationHistory)
    \o << [role |-> "user", content |-> Msg(b.question)] >>

generateEnhancedSuggestions(results) ==
    Take((IF NonEmptyString(results.analysis, "mainDescription")
          THEN <<Msg("What story does this image tell?"),
                 Msg("What draws your attention most in this scene?")>>
          ELSE <<>>)
         \o (IF NonEmptyList(results, "activities")
             THEN << <<"Tell me more about the ", results.activities[1], " happening here">>,
                     Msg("What might happen next in this scene?") >>
             ELSE <<>>)
         \o (IF NonEmptyString(results, "moodAtmosphere")
             THEN <<Msg("How does this image make you feel?"),
                    Msg("What creates the mood in this image?")>>
             ELSE <<>>)
         \o (IF NonEmptyList(results, "interestingDetails")
             THEN <<Msg("What's the most interesting detail you notice?"),
                    Msg("What details might I have missed?")>>
             ELSE <<>>)
         \o (IF NonEmptyString(results, "colorsComposition")
             THEN <<Msg("What makes this image visually appealing?"),
                    Msg("How do the colors work together?")>>
             ELSE <<>>)
         \o (IF NonEmptyString(results, "sceneContext")
             THEN <<Msg("What does the setting tell us about this moment?"),
                    Msg("If you were there, what would you notice first?")>>
             ELSE <<>>),
         MaxSuggestions)

generateQuestionSuggestions(results) ==
    IF isEnhancedAnalysis(results)
    THEN generateEnhancedSuggestions(results)
    ELSE Take(<<Msg("What do you see in this image?"), Msg("Can you describe the main subject?")>>
              \o (IF NonEmptyList(results, "objects")
                  THEN << <<"Tell me more about the ", Str(results.objects[1], "object"),
                            " in the image">> >>
                       \o (IF Len(results.objects) > 1
                           THEN <<Msg("What's the relationship between the objects?")>>
                           ELSE <<>>)
                  ELSE <<>>)
              \o (IF NonEmptyList(results, "people")
                  THEN <<Msg("What can you tell me about the people in the image?")>>
                       \o (IF Len(results.people) > 1
                           THEN <<Msg("How many people are in the image and where are they?")>>
                           ELSE <<>>)
                  ELSE <<>>)
              \o (IF NonEmptyList(results, "text")
                  THEN <<Msg("What does the text in the image say?"),
                         Msg("Can you explain the meaning of the text?")>>
                  ELSE <<>>)
              \o <<Msg("What are the dominant colors?"),
                   Msg("How would you describe the composition?"),
                   Msg("What's the setting or location?"),
                   Msg("What might be happening in this scene?")>>,
              MaxSuggestions)

\* ---- the requests of the chat router
\* A list field of a request: -1 absent, else its length.
Rect == [x |-> "0", y |-> "0"]
ObjectList(n) == [i \in 1..n |-> [object |-> IF i = 1 THEN "cat" ELSE "mat",
                                  confidence |-> "0.85", rectangle |-> Rect]]
PeopleList(n) == [i \in 1..n |-> [rectangle |-> Rect]]
TextList(n) == [i \in 1..n |-> "EXIT"]

StandardResults(o, p, t) ==
    [f \in {"tags"} \cup (IF o >= 0 THEN {"objects"} ELSE {})
                    \cup (IF p >= 0 THEN {"people"} ELSE {})
                    \cup (IF t >= 0 THEN {"text"} ELSE {}) |->
        IF f = "objects" THEN ObjectList(o)
        ELSE IF f = "people" THEN PeopleList(p)
        ELSE IF f = "text" THEN TextList(t)
        ELSE <<>>]

EnhancedFields ==
    {"mainDescription", "activities", "moodAtmosphere", "interestingDetails",
     "colorsComposition", "sceneContext"}
ListFields == {"activities", "interestingDetails"}

\* An enhanced result whose fields in S are filled; the others are absent,
\* or present and empty.
EnhancedResults(S, emptyOthers) ==
    LET top == EnhancedFields \ {"mainDescription"}
        val(f) == IF f \in S
                  THEN (IF f \in ListFields THEN <<"sleeping">> ELSE "calm")
                  ELSE (IF f \in ListFields THEN <<>> ELSE "")
    IN [f \in {"enhanced", "analysis"} \cup (IF emptyOthers THEN top ELSE top \cap S) |->
          IF f = "enhanced" THEN TRUE
          ELSE IF f = "analysis"
          THEN (IF "mainDescription" \in S THEN [mainDescription |-> "A cat.", confidence |-> "0.9"]
                ELSE IF emptyOthers THEN [mainDescription |-> "", confidence |-> "0.9"]
                ELSE [confidence |-> "0.9"])
          ELSE val(f)]

\* The shape the classic route answers in: entries without `object` / `rectangle`.
ClassicShaped ==
    [tags |-> <<>>, objects |-> << [name |-> "cat", confidence |-> "0.8", boundingBox |-> "bb"] >>]

SuggestionResults ==
    {StandardResults(o, p, t) : o \in -1..MaxItems, p \in -1..MaxItems, t \in -1..1}
    \cup {EnhancedResults(S, e) : S \in SUBSET EnhancedFields, e \in BOOLEAN}
    \cup {ClassicShaped, [enhanced |-> TRUE, objects |-> ObjectList(1)],
          [enhanced |-> FALSE, analysis |-> [mainDescription |-> "A cat."], text |-> TextList(1)]}

SuggestionRequests ==
    {[route |-> "chat/suggestions", present |-> TRUE, analysisResults |-> a] : a \in SuggestionResults}
    \cup {[route |-> "chat/suggestions", present |-> FALSE, analysisResults |-> <<>>]}

\* POST /api/chat/suggestions
ChatSuggestionsOn(r) ==
    IF ~r.present
    THEN Respond(r, [status |-> 400, body |-> [error |-> "Bad Request",
                       message |-> Msg("Missing required field: analysisResults")]],
                 NoCalls, blobs)
    ELSE Respond(r, [status |-> 200,
                     body |-> [suggestions |-> generateQuestionSuggestions(r.analysisResults),
                               timestamp |-> "ts"]],
                 NoCalls, blobs)

ChatSuggestions == \E r \in SuggestionRequests : ChatSuggestionsOn(r) /\ UNCHANGED client

ChatResults ==
    {StandardResults(1, 1, 1), StandardResults(-1, -1, -1), ClassicShaped,
     EnhancedResults(EnhancedFields, FALSE)}

HistoryEntries ==
    {[role |-> "user", content |-> Msg("q1")],
     [role |-> "assistant", content |-> Msg("a1")],
     [role |-> "system", content |-> Msg("s1")]}
Histories == UNION {[1..n -> HistoryEntries] : n \in 0..MaxHistory}

\* Every history with the full standard results; the other results with no history.
ChatRequests ==
    {[route |-> "chat/analyze", question |-> "What is it?", present |-> TRUE,
      analysisResults |-> StandardResults(1, 1, 1), conversationHistory |-> h] : h \in Histories}
    \cup {[route |-> "chat/analyze", question |-> "What is it?", present |-> TRUE,
           analysisResults |-> a, conversationHistory |-> <<>>] : a \in ChatResults}
    \cup {[route |-> "chat/analyze", question |-> "", present |-> TRUE,
           analysisResults |-> StandardResults(1, 1, 1), conversationHistory |-> <<>>],
          [route |-> "chat/analyze", question |-> "What is it?", present |-> FALSE,
           analysisResults |-> <<>>, conversationHistory |-> <<>>]}

\* How openai.chat.completions.create ends: an answer, no answer, an error code.
ChatOutcomes == {"answer", "noAnswer", "insufficient_quota", "content_filter", "ETIMEDOUT"}

\* The catch block of chat router.post('/analyze').
chatCatch(code) ==
    IF code = "insufficient_quota"
    THEN [status |-> 429, body |-> [error |-> "Quota Exceeded",
            message |-> Msg("OpenAI quota exceeded. Please try again later.")]]
    ELSE IF code = "content_filter"
    THEN [status |-> 400, body |-> [error |-> "Content Filtered",
            message |-> Msg("Your question was filtered by content policy. Please rephrase.")]]
    ELSE [status |-> 500, body |-> [error |-> "Internal Server Error",
            message |-> Msg("Failed to process chat request")]]

\* POST /api/chat/analyze
ChatAnalyzeOn(r) ==
    IF r.question = "" \/ ~r.present
    THEN Respond(r, [status |-> 400, body |-> [error |-> "Bad Request",
                       message |-> Msg("Missing required fields: question and analysisResults")]],
                 NoCalls, blobs)
    ELSE IF ~azureClients.openai
    THEN Respond(r, [status |-> 503, body |-> [error |-> "Service Unavailable",
                       message |-> Msg("OpenAI service not configured")]], NoCalls, blobs)
    ELSE IF contextThrows(r.analysisResults)
    THEN Respond(r, chatCatch("TypeError"), NoCalls, blobs)
    ELSE \E co \in ChatOutcomes :
           LET made == [NoCalls EXCEPT !.openai = <<[kind |-> "chat", messages |-> chatMessages(r)]>>]
           IN IF co = "answer"
              THEN Respond(r, [status |-> 200,
                               body |-> [question |-> r.question, answer |-> "It is a cat.",
                                         timestamp |-> "ts", usage |-> "usage"]],
                           made, blobs)
              ELSE Respond(r, chatCatch(co), made, blobs)

ChatAnalyze == \E r \in ChatRequests : ChatAnalyzeOn(r) /\ UNCHANGED client

\* --------------------------------------------------- routes/health.js
\* Object.values(healthStatus.services).filter(status === 'unavailable').length;
\* unavailableButKeyVault: the count without the Key Vault entry.
unavailableButKeyVault(clients) ==
    Cardinality({k \in {"vision", "translator", "openai", "blobService"} : ~clients[k]})
unavailableServices(clients) ==
    Cardinality({k \in DOMAIN clients : ~clients[k]})

healthStatus(clients) ==
    IF unavailableServices(clients) > 0 THEN "degraded" ELSE "healthy"

\* Dockerfile HEALTHCHECK: exit code of the probe for a /health status code.
healthcheckExit(status) == IF status = 200 THEN 0 ELSE 1

\* GET /health, asked by a client or by the container's HEALTHCHECK.
\* getAzureClients() and the property reads of the try block do not throw.
Health ==
    \E from \in {"client", "HEALTHCHECK"} :
      LET st == healthStatus(azureClients)
          code == IF st = "healthy" THEN 200 ELSE 503
      IN Respond([route |-> "health", from |-> from],
                 [status |-> code,
                  body |-> [status |-> st, timestamp |-> "ts",
                            services |-> [k \in DOMAIN azureClients |->
                               IF azureClients[k] THEN "available" ELSE "unavailable"]],
                  exit |-> healthcheckExit(code)],
                 NoCalls, blobs) /\ UNCHANGED client

\* GET /health/ready and GET /health/live
HealthReady ==
    /\ Respond([route |-> "health/ready"],
               [status |-> 200, body |-> [status |-> "ready", timestamp |-> "ts"]], NoCalls, blobs)
    /\ UNCHANGED client
HealthLive ==
    /\ Respond([route |-> "health/live"],
               [status |-> 200, body |-> [status |-> "alive", timestamp |-> "ts"]], NoCalls, blobs)
    /\ UNCHANGED client

\* ------------------------------------- index.js: limiter and the mounts
RateLimitMax == 100     \* rateLimit({ max: 100 })
MaxExtra == 2           \* requests followed beyond the limit, per IP and window
IPs == {"ip1", "ip2"}

\* A request path, by segments.
AppPaths ==
    {<<"api", "vision", "analyze">>, <<"api", "vision", "analyze-enhanced">>,
     <<"api", "translation", "translate">>, <<"api", "chat", "analyze">>,
     <<"analyze", "analyze">>, <<"analyze", "analyze-enhanced">>, <<"analyze">>,
     <<"health">>}

\* app.use('/api/', limiter)
limiterApplies(path) == path[1] = "api"

\* The routes of the three routers (POST), by the path below the mount.
visionRoutes(sub) ==
    IF sub \in {<<"analyze">>, <<"ocr">>, <<"analyze-enhanced">>}
    THEN [router |-> "vision", route |-> sub[1]] ELSE [router |-> "404", route |-> ""]
translationRoutes(sub) ==
    IF sub \in {<<"translate">>, <<"detect">>, <<"batch">>}
    THEN [router |-> "translation", route |-> sub[1]] ELSE [router |-> "404", route |-> ""]
chatRoutes(sub) ==
    IF sub \in {<<"analyze">>, <<"suggestions">>}
    THEN [router |-> "chat", route |-> sub[1]] ELSE [router |-> "404", route |-> ""]

\* The mounts of index.js, in order; what no mount answers falls to the 404 handler.
dispatch(path) ==
    IF path = <<"health">> THEN [router |-> "health", route |-> ""]
    ELSE IF path[1] = "api" /\ Len(path) > 1 /\ path[2] = "vision"
    THEN visionRoutes(SubSeq(path, 3, Len(path)))
    ELSE IF path[1] = "api" /\ Len(path) > 1 /\ path[2] = "translation"
    THEN translationRoutes(SubSeq(path, 3, Len(path)))
    ELSE IF path[1] = "api" /\ Len(path) > 1 /\ path[2] = "chat"
    THEN chatRoutes(SubSeq(path, 3, Len(path)))
    ELSE IF path[1] = "analyze"
    THEN visionRoutes(Tail(path))
    ELSE [router |-> "404", route |-> ""]

\* The handlers that call an external service.
Protected(h) == h.router \in {"vision", "translation", "chat"}

\* One request of `ip` through the limiter and the mounts: the limiter counts
\* it and answers 429 above the limit; otherwise the mounted router runs.
AppRequest ==
    \E ip \in IPs, path \in AppPaths :
      LET counted == IF limiterApplies(path) THEN hits[ip] + 1 ELSE hits[ip]
          h == dispatch(path)
          viaApi == limiterApplies(path)
      IN /\ counted < RateLimitMax + MaxExtra
         /\ hits' = [hits EXCEPT ![ip] = counted]
         /\ IF limiterApplies(path) /\ counted > RateLimitMax
            THEN reached' = reached
            ELSE IF Protected(h)
            THEN /\ ~viaApi => reached[ip].legacy < MaxExtra
                 /\ reached' = [reached EXCEPT ![ip] =
                                  IF viaApi THEN [@ EXCEPT !.api = @ + 1]
                                  ELSE [@ EXCEPT !.legacy = @ + 1]]
            ELSE reached' = reached
         /\ UNCHANGED <<env, azureClients, blobs, req, resp, calls, client, seen>>

\* windowMs elapsed: the store forgets the hits.
WindowReset ==
    /\ \E ip \in IPs : hits[ip] > 0
    /\ hits' = [ip \in IPs |-> 0]
    /\ reached' = [ip \in IPs |-> [api |-> 0, legacy |-> 0]]
    /\ UNCHANGED <<env, azureClients, blobs, req, resp, calls, client, seen>>

\* ------------------------- index.js: a POST through the mounts to its answer
\* The paths an image is posted to: the API route, the legacy mount, and the
\* route below the legacy mount.
PostPaths == {<<"api", "vision", "analyze">>, <<"analyze">>, <<"analyze", "analyze">>}

\* req.originalUrl / req.path of a path
PathString(path) ==
    IF path = <<"analyze">> THEN "/analyze"
    ELSE IF path = <<"analyze", "analyze">> THEN "/analyze/analyze"
    ELSE "/api/vision/analyze"

\* The request r as posted to path.
WithPath(r, path) ==
    [f \in DOMAIN r \cup {"path"} |-> IF f = "path" THEN path ELSE r[f]]

\* app.use('*'): 404 handler
notFound(path) ==
    [status |-> 404, body |-> [error |-> "Not Found",
                               message |-> <<"Route ", PathString(path), " not found">>]]

\* One POST of an image: express.json, the first mount whose prefix matches
\* (conditionalUpload, then the vision router on the rest of the path), and
\* the 404 handler when the router has no route for the rest.
AppPostOn(path, r) ==
    LET h == dispatch(path)
        parsed == parseBody(r)
        posted == WithPath(r, path)
    IN IF parsed.name # "next"
       THEN Respond([posted EXCEPT !.route = "none"], errorHandler(parsed, PathString(path)),
                    NoCalls, blobs)
       ELSE IF h.router = "vision" /\ h.route = "analyze"
       THEN VisionAnalyzeOn(posted)
       ELSE Respond([posted EXCEPT !.route = "404"], notFound(path), NoCalls, blobs)

AppPost == \E path \in PostPaths, r \in AnalyzeRequests : AppPostOn(path, r) /\ UNCHANGED client

\* ------------------------------ mobile-app/src/services/api.ts
\* Config.API.MAX_RETRIES: defined in the client's configuration; no code reads it.
MAX_RETRIES == 3

\* The image behind imageUri: whether the URI is a non-empty string, the
\* blob's size and its type.
ClientImages ==
    {[uri |-> TRUE, size |-> 1, type |-> "image/jpeg"],
     [uri |-> TRUE, size |-> 1, type |-> ""],
     [uri |-> TRUE, size |-> 10 * MB + 1, type |-> "image/jpeg"],
     [uri |-> TRUE, size |-> 0, type |-> "image/jpeg"],
     [uri |-> TRUE, size |-> 1, type |-> "text/plain"],
     [uri |-> FALSE, size |-> 0, type |-> ""]}

\* How fetch(imageUri) ends: a response that is ok, one that is not, a throw.
FetchOutcomes == {"ok", "notOk", "throws"}

NoError == [isError |-> FALSE, error |-> "", message |-> <<>>]
JsError(m) == [isError |-> TRUE, error |-> "Error", message |-> m]

ClientIdle ==
    [pc |-> "idle", img |-> [uri |-> FALSE, size |-> 0, type |-> ""],
     enhancedPosts |-> 0, analyzePosts |-> 0,
     sent |-> NoReq, response |-> NoResp, error |-> NoError, result |-> [none |-> TRUE]]

\* processImage(imageUri): [ok, error]; every failure leaves as an Error.
processImage(img, fo) ==
    IF ~img.uri
    THEN [ok |-> FALSE, error |-> JsError(Msg("Invalid image URI provided"))]
    ELSE IF fo = "throws"
    THEN [ok |-> FALSE, error |-> JsError(Msg("Network request failed"))]
    ELSE IF fo = "notOk"
    THEN [ok |-> FALSE, error |-> JsError(<<"Failed to fetch image: ", "404">>)]
    ELSE IF img.size = 0
    THEN [ok |-> FALSE,
          error |-> JsError(Msg("Image file is empty or corrupted. Please try taking a new photo."))]
    ELSE IF img.type # "" /\ img.type \notin {"image/jpeg", "image/png"}
    THEN [ok |-> FALSE,
          error |-> JsError(Msg("The selected file is not a valid image. Please choose an image file."))]
    ELSE [ok |-> TRUE, error |-> NoError]

\* The response interceptor's rejection: a plain object, not an Error.
apiError(response) ==
    [isError |-> FALSE,
     error |-> IF Has(response.body, "error") THEN response.body.error ELSE "Network Error",
     message |-> IF Has(response.body, "message") THEN response.body.message
                 ELSE Msg("Something went wrong")]

\* The body of the POST to /api/vision/analyze-enhanced: { image, mimeType }
enhancedPost(img) ==
    [route |-> "vision/analyze-enhanced", form |-> "json", size |-> img.size, isImage |-> TRUE,
     originalName |-> IF img.type # "" THEN img.type ELSE "image/jpeg",
     features |-> <<>>, language |-> ""]

\* The body of the POST to /api/vision/analyze: { image, features, language }
analyzePost(img) ==
    [route |-> "vision/analyze", form |-> "json", size |-> img.size, isImage |-> TRUE,
     originalName |-> "", features |-> defaultFeatures, language |-> "en"]

\* What analyzeImageEnhanced returns for the response data.
enhancedReturn(data) ==
    LET a == IF Has(data, "analysis") THEN data.analysis ELSE [none |-> TRUE]
    IN [success |-> TRUE,
        enhanced |-> TRUE,
        data |-> data,
        analysis |-> [caption |-> IF Has(a, "summary") THEN a.summary
                                  ELSE IF Has(a, "description") THEN a.description
                                  ELSE "undefined",
                      confidence |-> IF Has(a, "confidence") /\ a.confidence # 0
                                     THEN a.confidence ELSE 90,
                      categories |-> List(a, "categories"),
                      objects |-> List(a, "objects"),
                      people |-> List(a, "people"),
                      tags |-> List(a, "tags")],
        timestamp |-> "ts"]

\* analyzeImage with a catch that calls it again up to MAX_RETRIES times.
analyzeImageRetry(c, err) ==
    IF c.analyzePosts < MAX_RETRIES
    THEN [c EXCEPT !.pc = "analyze", !.error = err]
    ELSE [c EXCEPT !.pc = "threw", !.error = err]

\* The catch of analyzeImage: throw error.
analyzeImageCatch(c, err) ==
    [c EXCEPT !.pc = "threw", !.error = err]

\* The router a posted request reaches (index.js mounts) and its handler.
ServeOn(r) ==
    \/ r.route = "vision/analyze" /\ VisionAnalyzeOn(r)
    \/ r.route = "vision/analyze-enhanced" /\ VisionAnalyzeEnhancedOn(r)
    \/ r.route = "vision/ocr" /\ VisionOcrOn(r)
    \/ r.route = "translation/translate" /\ TranslateOn(r)
    \/ r.route = "translation/detect" /\ DetectOn(r)
    \/ r.route = "translation/batch" /\ BatchOn(r)
    \/ r.route = "chat/analyze" /\ ChatAnalyzeOn(r)

ClientBackend == UNCHANGED <<env, azureClients, blobs, req, resp, calls, hits, reached, seen>>

\* A call of analyzeImageEnhanced(imageUri) begins.
ClientStart ==
    /\ client.pc \in {"idle", "returned", "threw"}
    /\ \E img \in ClientImages : client' = [ClientIdle EXCEPT !.pc = "enhanced", !.img = img]
    /\ ClientBackend

\* try: processImage, read the blob as base64, post to /api/vision/analyze-enhanced
ClientTryEnhanced ==
    /\ client.pc = "enhanced"
    /\ \E fo \in FetchOutcomes :
         LET p == processImage(client.img, fo)
         IN client' = IF p.ok
                      THEN [client EXCEPT !.pc = "awaitEnhanced",
                                          !.enhancedPosts = client.enhancedPosts + 1,
                                          !.sent = enhancedPost(client.img)]
                      ELSE [client EXCEPT !.pc = "catch", !.error = p.error]
    /\ ClientBackend

\* The backend answers the post.
ServeEnhanced ==
    /\ client.pc = "awaitEnhanced"
    /\ ServeOn(client.sent)
    /\ client' = [client EXCEPT !.pc = "enhancedResponse", !.response = resp']

\* No response within Config.API.TIMEOUT, or no connection: the interceptor rejects.
LoseEnhanced ==
    /\ client.pc = "awaitEnhanced"
    /\ client' = [client EXCEPT !.pc = "catch", !.error = apiError(NoResp)]
    /\ ClientBackend

\* The response: a 2xx is returned, anything else is rejected by the interceptor.
ClientEnhancedResponse ==
    /\ client.pc = "enhancedResponse"
    /\ client' = IF client.response.status \in 200..299
                 THEN [client EXCEPT !.pc = "returned",
                                     !.result = enhancedReturn(client.response.body)]
                 ELSE [client EXCEPT !.pc = "catch", !.error = apiError(client.response)]
    /\ ClientBackend

\* catch of analyzeImageEnhanced: throw on an Error about the quota, else
\* fall back to analyzeImage(imageUri).
ClientCatch ==
    /\ client.pc = "catch"
    /\ client' = IF client.error.isError /\ Includes(client.error.message, "quota exceeded")
                 THEN [client EXCEPT !.pc = "threw",
                          !.error = JsError(Msg("AI service quota exceeded. Please try again later."))]
                 ELSE [client EXCEPT !.pc = "analyze"]
    /\ ClientBackend

\* analyzeImage: processImage, read the blob as base64, post to /api/vision/analyze
ClientTryAnalyze ==
    /\ client.pc = "analyze"
    /\ \E fo \in FetchOutcomes :
         LET p == processImage(client.img, fo)
         IN client' = IF p.ok
                      THEN [client EXCEPT !.pc = "awaitAnalyze",
                                          !.analyzePosts = client.analyzePosts + 1,
                                          !.sent = analyzePost(client.img)]
                      ELSE analyzeImageCatch(client, p.error)
    /\ ClientBackend

ServeAnalyze ==
    /\ client.pc = "awaitAnalyze"
    /\ ServeOn(client.sent)
    /\ client' = [client EXCEPT !.pc = "analyzeResponse", !.response = resp']

LoseAnalyze ==
    /\ client.pc = "awaitAnalyze"
    /\ client' = analyzeImageCatch(client, apiError(NoResp))
    /\ ClientBackend

ClientAnalyzeResponse ==
    /\ client.pc = "analyzeResponse"
    /\ client' = IF client.response.status \in 200..299
                 THEN [client EXCEPT !.pc = "returned", !.result = client.response.body]
                 ELSE analyzeImageCatch(client, apiError(client.response))
    /\ ClientBackend

\* The steps of a running call.
ClientStep ==
    \/ ClientTryEnhanced \/ ServeEnhanced \/ LoseEnhanced \/ ClientEnhancedResponse
    \/ ClientCatch \/ ClientTryAnalyze \/ ServeAnalyze \/ LoseAnalyze \/ ClientAnalyzeResponse

\* Requests of other users that the backend serves meanwhile: one per route
\* that calls an external service.
OtherRequests ==
    {r \in TranslateRequests : r.text = 1 /\ r.targetLanguage = "es" /\ r.sourceLanguage = ""}
    \cup {r \in DetectRequests : r.text = 1}
    \cup {r \in BatchRequests : r.n = 1 /\ r.textLen = 1 /\ r.targetLanguage = "es"
                                /\ r.sourceLanguage = ""}
    \cup {r \in OcrRequests : r.form = "multipart" /\ r.language = ""}
    \cup {r \in ChatRequests : r.question # "" /\ r.conversationHistory = <<>> /\ r.present
                               /\ r.analysisResults = StandardResults(1, 1, 1)}

OtherRequest == \E r \in OtherRequests : ServeOn(r) /\ UNCHANGED client

NoProbe == [probe |-> [route |-> "no probe"], set |-> FALSE, out |-> <<>>,
            between |-> FALSE, again |-> FALSE]

\* The requests whose output is compared between two runs.
ProbeRequests ==
    {r \in ChatRequests : r.question # "" /\ r.present /\ Len(r.conversationHistory) = 1
                          /\ r.conversationHistory[1].role = "user"
                          /\ r.analysisResults = StandardResults(1, 1, 1)}
    \cup {r \in SuggestionRequests : r.present /\ r.analysisResults = StandardResults(1, 1, 1)}

InitBase ==
    /\ env \in Envs
    /\ azureClients = initializeAzureClients(env)
    /\ blobs = <<>>
    /\ req = NoReq
    /\ resp = NoResp
    /\ calls = NoCalls
    /\ hits = <<>>
    /\ reached = <<>>
    /\ client = <<>>

Init == InitBase /\ seen = NoProbe

NextVision == VisionAnalyze \/ VisionOcr \/ VisionAnalyzeEnhanced
SpecVision == Init /\ [][NextVision]_vars

InitChat ==
    /\ InitBase
    /\ env.VISION /\ env.TRANSLATOR_API_KEY /\ env.STORAGE_CONNECTION_STRING /\ env.KEY_VAULT_URL
    /\ seen \in {[NoProbe EXCEPT !.probe = r] : r \in ProbeRequests}
NextChat == ChatAnalyze \/ ChatSuggestions
SpecChat == InitChat /\ [][NextChat]_vars

NextHealth == Health \/ HealthReady \/ HealthLive
SpecHealth == Init /\ [][NextHealth]_vars

InitRate ==
    /\ env = [VISION |-> TRUE, TRANSLATOR_API_KEY |-> TRUE, OPENAI |-> TRUE,
              STORAGE_CONNECTION_STRING |-> TRUE, KEY_VAULT_URL |-> TRUE, NODE_ENV |-> "production"]
    /\ azureClients = initializeAzureClients(env)
    /\ blobs = <<>> /\ req = NoReq /\ resp = NoResp /\ calls = NoCalls
    /\ client = <<>> /\ seen = NoProbe
    /\ hits = [ip \in IPs |-> 0]
    /\ reached = [ip \in IPs |-> [api |-> 0, legacy |-> 0]]
NextRate == AppRequest \/ WindowReset
SpecRate == InitRate /\ [][NextRate]_vars

NextTranslation == Translate \/ Detect \/ Batch
SpecTranslation == Init /\ [][NextTranslation]_vars

InitClient ==
    /\ env \in Envs
    /\ env.KEY_VAULT_URL /\ env.NODE_ENV = "production"
    /\ azureClients = initializeAzureClients(env)
    /\ blobs = <<>> /\ req = NoReq /\ resp = NoResp /\ calls = NoCalls
    /\ hits = <<>> /\ reached = <<>>
    /\ seen = NoProbe
    /\ client = ClientIdle
NextClient == ClientStart \/ ClientStep \/ OtherRequest
\* A running call takes its next step: every await in it ends (fetch and the
\* FileReader settle, the post is answered or times out).
SpecClient == InitClient /\ [][NextClient]_vars /\ WF_vars(ClientStep)

NextLegacy == AppPost
SpecLegacy == Init /\ [][NextLegacy]_vars

\* ===================================================== claims, vision
\* C1: user images are never persisted: whatever analysis requests were
\* answered, the set of stored blobs is unchanged (it stays empty).
C1_NoImagePersisted == blobs = <<>>

InvalidFeaturesOrLanguage(r) ==
    \/ \E i \in 1..Len(r.features) : r.features[i] \notin validFeatures
    \/ r.language # "" /\ r.language \notin visionLanguages

\* C3: a request to POST /api/vision/analyze with a feature name outside the
\* seven valid ones or a language outside the ten supported codes is answered
\* 400 'Validation failed' and the Vision API is not called for it.
C3_InvalidRejected ==
    (req.route = "vision/analyze" /\ InvalidFeaturesOrLanguage(req))
        => /\ resp.status = 400
           /\ resp.body.error = "Validation failed"
           /\ calls.vision = <<>>

\* The response schema of the classic analysis.
ClassicSchema(b) ==
    /\ {"success", "timestamp", "imageUrl", "analysis"} \subseteq DOMAIN b
    /\ {"caption", "confidence", "objects", "people", "tags"} \subseteq DOMAIN b.analysis
    /\ \A i \in DOMAIN b.analysis.objects :
          DOMAIN b.analysis.objects[i] = {"name", "confidence", "boundingBox"}
    /\ \A i \in DOMAIN b.analysis.tags :
          DOMAIN b.analysis.tags[i] = {"name", "confidence"}

\* C5: a successful enhanced analysis answers in the response schema of the
\* classic analysis, for every model answer.
C5_SameSchema ==
    (req.route = "vision/analyze-enhanced" /\ resp.status = 200) => ClassicSchema(resp.body)

\* The classic route does answer in that schema.
ClassicAnswersInSchema ==
    (req.route = "vision/analyze" /\ resp.status = 200) => ClassicSchema(resp.body)

\* Message fragments that come from a caught error, not from the route's own text.
InternalFragments ==
    {"Invalid feature", "Access denied", "timeout of 30000ms exceeded",
     "OpenAI client not initialized", "Unexpected token < in JSON at position 0",
     "Request timed out.", "request entity too large", "Only image files are allowed!"}

\* C8: outside development an error response carries neither the internal
\* error's message nor its stack.
C8_NoInternalDetails ==
    (~IsDev /\ resp.status >= 400)
        => /\ ~Has(resp.body, "details")
           /\ ~Has(resp.body, "stack")
           /\ Has(resp.body, "message") =>
                 \A i \in 1..Len(resp.body.message) : resp.body.message[i] \notin InternalFragments

\* ================================================ claims, translation
ViolatesSchema(r) ==
    \/ r.route = "translation/translate" /\ validateTranslationRequest(r)
    \/ r.route = "translation/detect" /\ validateLanguageDetectionRequest(r)
    \/ r.route = "translation/batch" /\ validateBatchTranslationRequest(r)

\* C4: a translation request (translate, detect, batch) whose body violates
\* its validation schema is answered 400 and the translator is not called.
C4_InvalidTranslationRejected ==
    ViolatesSchema(req) => (resp.status = 400 /\ calls.translator = <<>>)

\* ======================================================= claims, chat
\* The suggestions that are tied to a field of analysisResults.
TiedTo(sg, f) ==
    IF f = "objects"
    THEN (Len(sg) = 3 /\ sg[1] = "Tell me more about the " /\ sg[3] = " in the image")
         \/ sg = Msg("What's the relationship between the objects?")
    ELSE IF f = "people"
    THEN sg \in {Msg("What can you tell me about the people in the image?"),
                 Msg("How many people are in the image and where are they?")}
    ELSE IF f = "text"
    THEN sg \in {Msg("What does the text in the image say?"),
                 Msg("Can you explain the meaning of the text?")}
    ELSE IF f = "mainDescription"
    THEN sg \in {Msg("What story does this image tell?"),
                 Msg("What draws your attention most in this scene?")}
    ELSE IF f = "activities"
    THEN (Len(sg) = 3 /\ sg[1] = "Tell me more about the " /\ sg[3] = " happening here")
         \/ sg = Msg("What might happen next in this scene?")
    ELSE IF f = "moodAtmosphere"
    THEN sg \in {Msg("How does this image make you feel?"),
                 Msg("What creates the mood in this image?")}
    ELSE IF f = "interestingDetails"
    THEN sg \in {Msg("What's the most interesting detail you notice?"),
                 Msg("What details might I have missed?")}
    ELSE IF f = "colorsComposition"
    THEN sg \in {Msg("What makes this image visually appealing?"),
                 Msg("How do the colors work together?")}
    ELSE sg \in {Msg("What does the setting tell us about this moment?"),
                 Msg("If you were there, what would you notice first?")}

\* The field is present and non-empty in the request.
Filled(results, f) ==
    IF f \in {"objects", "people", "text", "activities", "interestingDetails"}
    THEN NonEmptyList(results, f)
    ELSE IF f = "mainDescription"
    THEN Has(results, "analysis") /\ NonEmptyString(results.analysis, f)
    ELSE NonEmptyString(results, f)

TiedFields == {"objects", "people", "text"} \cup EnhancedFields

\* C6: POST /api/chat/suggestions returns at most 6 suggestions, and a
\* suggestion tied to an analysis field is returned only when that field is
\* present and non-empty in the request.
C6_Suggestions ==
    (req.route = "chat/suggestions" /\ resp.status = 200)
        => /\ Len(resp.body.suggestions) <= 6
           /\ \A i \in 1..Len(resp.body.suggestions) : \A f \in TiedFields :
                 TiedTo(resp.body.suggestions[i], f) => Filled(req.analysisResults, f)

\* C6, its case: more than six questions apply and six are returned, on
\* the enhanced path.
C6_Witness ==
    /\ req.route = "chat/suggestions" /\ resp.status = 200
    /\ isEnhancedAnalysis(req.analysisResults)
    /\ \A f \in EnhancedFields : Filled(req.analysisResults, f)
    /\ Len(resp.body.suggestions) = 6

AllConfigured == \A k \in DOMAIN azureClients : azureClients[k]

\* C9: GET /health answers 200 'healthy' exactly when all five clients are
\* configured, and 503 'degraded' otherwise; the container's HEALTHCHECK
\* passes (exit 0) only in the fully configured state.
C9_Health ==
    req.route = "health"
        => /\ (resp.status = 200 /\ resp.body.status = "healthy") <=> AllConfigured
           /\ ~AllConfigured => (resp.status = 503 /\ resp.body.status = "degraded")
           /\ resp.exit = 0 <=> AllConfigured

\* C9, its case: a health check answered with only Key Vault missing.
C9_Witness ==
    /\ req.route = "health" /\ req.from = "HEALTHCHECK"
    /\ ~azureClients.keyVault
    /\ \A k \in DOMAIN azureClients \ {"keyVault"} : azureClients[k]
    /\ resp.status = 503

\* ================================================= claims, rate limit
\* C2: in a window no IP has more than 100 requests reach the image-analysis,
\* translation or chat handlers, through any path the app mounts them on.
C2_RateLimited ==
    \A ip \in IPs : reached[ip].api + reached[ip].legacy <= RateLimitMax

\* ===================================================== claims, client
ClientDone == client.pc \in {"returned", "threw"}

LegacyImagePost ==
    /\ Has(req, "path") /\ req.path = <<"analyze">>
    /\ req.form \in {"multipart", "json"}

\* C11: a POST to the legacy path /analyze carrying an image (multipart or
\* base64 JSON) is handled by the image-analysis handler of
\* POST /api/vision/analyze: it is not answered 404, and a request that the
\* handler answers before the Vision call gets that same answer.
C11_LegacyCompatible ==
    (LegacyImagePost /\ parseBody(req).name = "next")
        => /\ req.route = "vision/analyze"
           /\ resp.status # 404
           /\ analyzeEarly(req).status # 0 => resp = analyzeEarly(req)

\* ===================================================== claims, chat messages
ChatSent == req.route = "chat/analyze" /\ calls.openai # <<>>

\* C12: the message list POST /api/chat/analyze sends to the model has exactly
\* one 'system' message, at position 0; then one message per
\* conversationHistory entry, in order, with the entry's content and the role
\* 'user' for 'user' and 'assistant' for any other role; then the question as
\* the last message, role 'user'. Its length is the history length plus 2.
\* A request answered 200 has sent exactly one such list.
C12_MessageList ==
    /\ (req.route = "chat/analyze" /\ resp.status = 200) => Len(calls.openai) = 1
    /\ ChatSent =>
         LET m == calls.openai[1].messages
             h == req.conversationHistory
         IN /\ Len(m) = Len(h) + 2
            /\ m[1].role = "system"
            /\ \A i \in 2..Len(m) : m[i].role \in {"user", "assistant"}
            /\ \A i \in 1..Len(h) :
                 /\ m[i + 1].content = h[i].content
                 /\ m[i + 1].role = IF h[i].role = "user" THEN "user" ELSE "assistant"
            /\ m[Len(m)] = [role |-> "user", content |-> Msg(req.question)]

\* A list was sent for a history of several entries, one of them with role 'system'.
C12_Witness ==
    /\ ChatSent
    /\ Len(req.conversationHistory) >= 2
    /\ \E i \in DOMAIN req.conversationHistory : req.conversationHistory[i].role = "system"
    /\ \E i \in DOMAIN req.conversationHistory : req.conversationHistory[i].role = "user"
    /\ resp.status = 200

\* ===================================================== claims, unconfigured services
VisionRouteNames == {"vision/analyze", "vision/ocr", "vision/analyze-enhanced"}
TranslationRouteNames == {"translation/translate", "translation/detect", "translation/batch"}

\* The request passes the body parsers and the checks of its own content.
WellFormed(r) ==
    \/ /\ r.route \in {"vision/analyze", "vision/analyze-enhanced"}
       /\ r.form \in {"multipart", "json"}
       /\ parseBody(r).name = "next" /\ r.size > 0 /\ ~ImageTooLarge(r.size)
    \/ /\ r.route = "vision/ocr"
       /\ r.form = "multipart" /\ parseBody(r).name = "next" /\ r.size > 0
    \/ r.route \in TranslationRouteNames /\ ~ViolatesSchema(r)
    \/ r.route = "chat/analyze" /\ r.question # "" /\ r.present

\* The external service behind the route is not configured.
BackingUnconfigured(r) ==
    \/ r.route \in {"vision/analyze", "vision/ocr"} /\ ~env.VISION
    \/ r.route \in {"vision/analyze-enhanced", "chat/analyze"} /\ ~env.OPENAI
    \/ r.route \in TranslationRouteNames /\ ~env.TRANSLATOR_API_KEY

\* C13: a well-formed request to an endpoint whose backing external service is
\* not configured (vision analyze, OCR, enhanced analysis, translate, detect,
\* batch, chat analyze) is answered 503 with a 'service unavailable / not
\* configured' message, never 500, and no external call is made for it.
C13_Unavailable503 ==
    (WellFormed(req) /\ BackingUnconfigured(req))
        => /\ resp.status = 503
           /\ calls = NoCalls

\* ===================================================== claims, image size
ImageSubmitted ==
    /\ req.route \in {"vision/analyze", "vision/analyze-enhanced"}
    /\ req.form \in {"multipart", "json"}
    /\ req.isImage

SizeRejections == {"Image too large", "File too large", "Payload too large"}

\* C14: the backend's size limit for an image to analyse is 20MB: an image
\* submitted to POST /api/vision/analyze or /analyze-enhanced (multipart file
\* or base64 JSON) is answered 400 'Image too large' when its decoded size
\* exceeds 20MB, and no stage of the pipeline rejects it for its size when it
\* is non-empty and at most 20MB.
C14_SizeLimit ==
    ImageSubmitted =>
        /\ req.size > MaxImageBytes
             => (resp.status = 400 /\ resp.body.error = "Image too large")
        /\ (req.size > 0 /\ req.size <= MaxImageBytes)
             => (resp.status # 413 /\ resp.body.error \notin SizeRejections)

\* ===================================================== claims, suggestions coverage
StandardSuggestions ==
    /\ req.route = "chat/suggestions" /\ req.present
    /\ ~isEnhancedAnalysis(req.analysisResults)
    /\ resp.status = 200

\* C15: for every standard (non-enhanced) analysisResults, each of the fields
\* objects, people and text that is present and non-empty contributes at least
\* one question to the suggestions returned by POST /api/chat/suggestions;
\* whenever text was found, 'What does the text in the image say?' is among them.
C15_EachFieldContributes ==
    StandardSuggestions =>
        /\ \A f \in {"objects", "people", "text"} :
              Filled(req.analysisResults, f)
                 => \E i \in 1..Len(resp.body.suggestions) : TiedTo(resp.body.suggestions[i], f)
        /\ Filled(req.analysisResults, "text")
              => \E i \in 1..Len(resp.body.suggestions) :
                    resp.body.suggestions[i] = Msg("What does the text in the image say?")

====
